---- MODULE Spec2Model ----
(***************************************************************************)
(* A model of resample_tools.py: validate_bounds_for_crs, warp_image and   *)
(* get_geojson_bounds.                                                     *)
(*                                                                         *)
(* Conventions.                                                            *)
(*   - An optional value (a parameter whose default is None) is a tuple:   *)
(*     None is <<>> and the value v is <<v>>.                              *)
(*   - A number that the code computes by true division is an exact        *)
(*     rational <<n, d>> with d > 0 in lowest terms; the code's binary     *)
(*     floating point is idealised to exact arithmetic.                    *)
(*   - A str is a sequence of tokens; the tokens are path characters, with *)
(*     the four characters ".tif" taken as one token.                      *)
(*   - result is <<>> while a call runs, <<"raise", exception>> when it    *)
(*     aborted and <<"return", kind, value>> when it returned.             *)
(***************************************************************************)
EXTENDS Integers, Sequences, FiniteSets, TLC

VARIABLES
    pc,                   \* position of the running call
    result,               \* outcome of the call
    crs, bounds,          \* parameters of a direct validate_bounds_for_crs call
    tif_list, dst_bounds, dst_crs, dst_height, dst_width, res, band,
    profile, deflate_compression, save,     \* parameters of warp_image
    xres, yres, dst_transform, vrt_options, outfiles, outfile, data,
    idx,                  \* its locals; idx is the position of p in tif_list
    opened,               \* every open of a raster so far, <<mode, path>>, in order
    disk,                 \* the rasters written so far, as <<path, content>> in order
    unreadable,           \* the source paths rasterio.open cannot open
    passed,               \* the arguments warp_image was called with, for
                          \* the parameters its body rebinds
    aoi_geojson           \* parameter of get_geojson_bounds

vars == <<pc, result, crs, bounds, tif_list, dst_bounds, dst_crs, dst_height,
          dst_width, res, band, profile, deflate_compression, save, xres, yres,
          dst_transform, vrt_options, outfiles, outfile, data, idx, opened,
          disk, unreadable, passed, aoi_geojson>>

warpParams == <<tif_list, dst_bounds, dst_crs, band, profile,
                deflate_compression, save, unreadable, passed>>
warpLocals == <<xres, yres, dst_transform, vrt_options, outfiles, outfile,
                data, idx>>
validateFrame == <<crs, bounds>>

(***************************************************************************)
(* Bounds of the model.                                                    *)
(***************************************************************************)
Margin == 1        \* bound values lie within Margin of a validation threshold
MaxCoord == 5      \* right and top of the bounds in the resolution runs
MaxRes == 2        \* largest resolution; resolutions are -1/2, 0, 1/2, 1, ...
MaxDim == 2        \* largest explicit dst_height / dst_width
MaxFiles == 2      \* longest tif_list
MaxPts == 2        \* most positions in one coordinate array
MaxDeg == 1        \* lon and lat values 0..MaxDeg (besides 12 and 34)

(***************************************************************************)
(* Python values.                                                          *)
(***************************************************************************)
None == <<>>
Some(v) == <<v>>
IsNone(o) == o = <<>>
Val(o) == o[1]

Abs(n) == IF n < 0 THEN -n ELSE n

RECURSIVE Gcd(_, _)
Gcd(a, b) == IF b = 0 THEN a ELSE Gcd(b, a % b)

\* the rational n/d (d # 0) in lowest terms with a positive denominator
Rat(n, d) ==
    LET g == Gcd(Abs(n), Abs(d))
        s == IF d < 0 THEN -1 ELSE 1
    IN  <<(s * n) \div g, (s * d) \div g>>

RatOfInt(i) == <<i, 1>>
RatMul(p, q) == Rat(p[1] * q[1], p[2] * q[2])
RatDiv(p, q) == Rat(p[1] * q[2], p[2] * q[1])
RatIsZero(q) == q[1] = 0

\* a faulty variant of Round: ties go up instead of to the even neighbour
RoundHalfUp(q) ==
    LET f == q[1] \div q[2]
        r == q[1] % q[2]
    IN  IF 2 * r < q[2] THEN f ELSE f + 1

\* Python's built-in round(x) of one argument: the nearest integer, a tie
\* going to the even one
Round(q) ==
    LET f == q[1] \div q[2]
        r == q[1] % q[2]
    IN  IF 2 * r < q[2] THEN f
        ELSE IF 2 * r > q[2] THEN f + 1
        ELSE IF f % 2 = 0 THEN f ELSE f + 1

(***************************************************************************)
(* CRS.from_user_input: the EPSG codes the model uses and their unit kind. *)
(***************************************************************************)
EpsgCodes == {4326, 3857, 32610}
FromUserInput(code) ==
    [epsg |-> code, is_projected |-> code \in {3857, 32610}]
CrsSet == {FromUserInput(c) : c \in EpsgCodes}

(***************************************************************************)
(* validate_bounds_for_crs(crs, bounds): "ok" when it returns, the name of *)
(* the exception when an assert fails.                                     *)
(***************************************************************************)
\* a faulty variant of ProjectedOk: only values above +180 count
ProjectedOkPositiveOnly(b) == \E i \in 1..4 : b[i] > 180

ProjectedOk(b) == \E i \in 1..4 : b[i] > 180 \/ b[i] < -180

\* a faulty variant of valid_lat: the latitude range applied to left/right
valid_lat_swapped(b) == \A i \in {b[1], b[3]} : -90 <= i /\ i <= 90

\* bounds = (left, bottom, right, top)
valid_lat(b) == \A i \in {b[4], b[2]} : -90 <= i /\ i <= 90

valid_lon(b) == \A i \in {b[1], b[3]} : -180 <= i /\ i <= 180

validate_bounds_for_crs(c, b) ==
    IF c.is_projected
    THEN IF ProjectedOk(b) THEN "ok" ELSE "AssertionError"
    ELSE IF valid_lat(b) /\ valid_lon(b) THEN "ok" ELSE "AssertionError"

(***************************************************************************)
(* A direct call of validate_bounds_for_crs.                               *)
(***************************************************************************)
ThresholdValues ==
    UNION {{t - m, t + m} : t \in {-180, -90, 0, 90, 180}, m \in 0..Margin}

Idle == <<>>

ValidateCall ==
    /\ pc = "validate"
    /\ LET r == validate_bounds_for_crs(crs, bounds)
       IN  /\ result' = IF r = "ok" THEN <<"return", "none", None>>
                        ELSE <<"raise", r>>
           /\ pc' = IF r = "ok" THEN "done" ELSE "failed"
    /\ UNCHANGED <<validateFrame, warpParams, warpLocals, dst_height,
                   dst_width, res, opened, disk, aoi_geojson>>

\* the frame of a call that is not running
NoValidateCall == crs = Idle /\ bounds = Idle
NoGeoCall == aoi_geojson = Idle
NoWarpCall ==
    /\ tif_list = Idle /\ dst_bounds = Idle /\ dst_crs = Idle
    /\ dst_height = None /\ dst_width = None /\ res = None /\ band = None
    /\ profile = None /\ deflate_compression = TRUE /\ save = TRUE
    /\ unreadable = {} /\ passed = Idle
\* nothing computed, opened or written yet
Fresh ==
    /\ result = None
    /\ xres = None /\ yres = None /\ dst_transform = None
    /\ vrt_options = None /\ outfiles = <<>> /\ outfile = None
    /\ data = None /\ idx = 0
    /\ opened = <<>> /\ disk = <<>>

InitValidate ==
    /\ pc = "validate"
    /\ crs \in CrsSet
    /\ bounds \in ThresholdValues \X ThresholdValues \X ThresholdValues
                    \X ThresholdValues
    /\ Fresh /\ NoWarpCall /\ NoGeoCall

SpecValidate == InitValidate /\ [][ValidateCall]_vars

(***************************************************************************)
(* warp_image: the defaults of the parameters the model does not vary.     *)
(***************************************************************************)
output_dir == <<"out">>
resampling == "nearest"          \* Resampling.nearest, by its name
src_nodata == "nan"              \* np.nan, as f"{src_nodata}" prints it
dst_nodata == "nan"

\* a faulty variant of NotInt: "x is None", which takes 0 for a supplied value
NotIntIsNone(o) == IsNone(o)

\* "if not x" on an optional integer: None and 0 are falsy
NotInt(o) == IsNone(o) \/ Val(o) = 0
\* "if res" on an optional number
Truthy(o) == ~IsNone(o) /\ ~RatIsZero(Val(o))

(***************************************************************************)
(* Lines 45-47: a tif_list that is no list or tuple becomes a one-element  *)
(* list; every element goes through str(), which leaves a str as it is.    *)
(* A tif_list is <<kind, value>>: <<"str", path>> or <<"list", paths>> or  *)
(* <<"tuple", paths>>.                                                     *)
(***************************************************************************)
NormaliseTifList(t) ==
    IF t[1] \in {"list", "tuple"} THEN <<"list", t[2]>> ELSE <<"list", <<t[2]>>>>

\* line 50
NormaliseProfile(p) ==
    IF IsNone(p) \/ DOMAIN Val(p) = {} THEN [k \in {} |-> None] ELSE Val(p)

(***************************************************************************)
(* Lines 53-63: the resolved (xres, yres, dst_height, dst_width), or the   *)
(* exception the arithmetic raises. b = (left, bottom, right, top).        *)
(***************************************************************************)
\* line 57
DimsMissing(h, w) == NotInt(h) \/ NotInt(w)

\* extent / dim of lines 61-62, dim being None, 0 or a pixel count
DivByDim(extent, dim) ==
    IF IsNone(dim) THEN [err |-> "TypeError", q |-> None]
    ELSE IF Val(dim) = 0 THEN [err |-> "ZeroDivisionError", q |-> None]
    ELSE [err |-> "", q |-> Some(Rat(extent, Val(dim)))]

Resolve(b, r, h, w) ==
    LET left == b[1]  bottom == b[2]  right == b[3]  top == b[4]
    IN  IF Truthy(r)
        THEN IF DimsMissing(h, w)
             THEN [err |-> "", xres |-> r, yres |-> r,
                   height |-> Some(Round(RatDiv(RatOfInt(top - bottom), Val(r)))),
                   width |-> Some(Round(RatDiv(RatOfInt(right - left), Val(r))))]
             ELSE [err |-> "", xres |-> r, yres |-> r, height |-> h, width |-> w]
        ELSE LET x == DivByDim(right - left, w)
                 y == DivByDim(top - bottom, h)
             IN  IF x.err # ""
                 THEN [err |-> x.err, xres |-> None, yres |-> None,
                       height |-> h, width |-> w]
                 ELSE [err |-> y.err, xres |-> x.q, yres |-> y.q,
                       height |-> h, width |-> w]

\* affine.Affine(a, b, c, d, e, f), its six coefficients as numbers
Affine(a, b, c, d, e, f) ==
    <<a, RatOfInt(b), RatOfInt(c), RatOfInt(d), e, RatOfInt(f)>>

\* line 63
Transform(b, xr, yr) ==
    Affine(xr, 0, b[1], 0, RatMul(RatOfInt(-1), yr), b[4])

(***************************************************************************)
(* Lines 65-80: the warp parameter set.                                    *)
(***************************************************************************)
ComputedKeys ==
    {"resampling", "crs", "transform", "height", "width", "src_nodata", "nodata"}

Computed(c, t, h, w) ==
    [k \in ComputedKeys |->
        CASE k = "resampling" -> resampling
          [] k = "crs" -> c
          [] k = "transform" -> t
          [] k = "height" -> h
          [] k = "width" -> w
          [] k = "src_nodata" -> src_nodata
          [] k = "nodata" -> dst_nodata]

\* a faulty variant of Merge: the caller's profile wins
MergeProfileLast(p, c) ==
    [k \in DOMAIN p \cup DOMAIN c |-> IF k \in DOMAIN p THEN p[k] ELSE c[k]]

\* {**p, **c}: the keys of both, c's value where both have the key
Merge(p, c) ==
    [k \in DOMAIN p \cup DOMAIN c |-> IF k \in DOMAIN c THEN c[k] ELSE p[k]]

\* lines 77-80
SetCompress(o, deflate) ==
    IF deflate
    THEN [k \in DOMAIN o \cup {"compress"} |->
             IF k = "compress" THEN "deflate" ELSE o[k]]
    ELSE [k \in DOMAIN o \ {"compress"} |-> o[k]]

VrtOptions(p, c, t, h, w, deflate) ==
    SetCompress(Merge(p, Computed(c, t, h, w)), deflate)

(***************************************************************************)
(* Lines 86-90: the output path of one input.                              *)
(***************************************************************************)
Digit(n) == ToString(n % 10)

\* f"{q:.4f}": q to four decimals
Fmt4(q) ==
    LET t == Round(Rat(q[1] * 10000, q[2]))
        a == Abs(t)
        f == a % 10000
    IN  (IF t < 0 THEN "-" ELSE "") \o ToString(a \div 10000) \o "."
        \o Digit(f \div 1000) \o Digit(f \div 100) \o Digit(f \div 10) \o Digit(f)

\* the f-string of line 88, up to its closing ".tif"
Descriptive(h, w, yr, xr) ==
    ".nodata" \o src_nodata \o "_" \o resampling \o "_" \o ToString(h) \o "x"
    \o ToString(w) \o "_res" \o Fmt4(yr) \o "x" \o Fmt4(xr)

\* p.split("/")[-1]
LastComponent(p) ==
    LET slashes == {i \in 1..Len(p) : p[i] = "/"}
        k == IF slashes = {} THEN 0
             ELSE CHOOSE i \in slashes : \A j \in slashes : j <= i
    IN  SubSeq(p, k + 1, Len(p))

\* s.replace(".tif", suf): every occurrence replaced
RECURSIVE ReplaceTif(_, _)
ReplaceTif(s, suf) ==
    IF s = <<>> THEN <<>>
    ELSE (IF Head(s) = ".tif" THEN suf ELSE <<Head(s)>>) \o ReplaceTif(Tail(s), suf)

\* lines 86-90
Outfile(p, h, w, yr, xr) ==
    output_dir \o <<"/">>
    \o ReplaceTif(LastComponent(p), <<Descriptive(h, w, yr, xr), ".tif">>)

\* vrt.read(band): the pixels of source p seen through the warped view
Pixels(p, b) == <<"pixels", p, b>>

(***************************************************************************)
(* warp_image, step by step.                                               *)
(***************************************************************************)
resolveVars == <<dst_height, dst_width, res>>
otherCalls == <<validateFrame, aoi_geojson>>

Raise(e) == /\ pc' = "failed"
            /\ result' = <<"raise", e>>

\* a faulty variant of WarpBegin: the bounds are not validated before the loop
WarpBeginUnvalidated ==
    /\ pc = "warp"
    /\ tif_list' = NormaliseTifList(tif_list)
    /\ IF dst_crs \notin EpsgCodes
       THEN /\ Raise("CRSError")
            /\ UNCHANGED <<dst_crs, profile>>
       ELSE /\ dst_crs' = FromUserInput(dst_crs)
            /\ profile' = NormaliseProfile(profile)
            /\ pc' = "resolve"
            /\ UNCHANGED result
    /\ UNCHANGED <<dst_bounds, band, deflate_compression, save, unreadable,
                   passed, resolveVars, warpLocals, opened, disk, otherCalls>>

\* lines 45-50: normalise tif_list, resolve the CRS, validate the bounds
WarpBegin ==
    /\ pc = "warp"
    /\ tif_list' = NormaliseTifList(tif_list)
    /\ IF dst_crs \notin EpsgCodes
       THEN /\ Raise("CRSError")
            /\ UNCHANGED <<dst_crs, profile>>
       ELSE /\ dst_crs' = FromUserInput(dst_crs)
            /\ IF validate_bounds_for_crs(FromUserInput(dst_crs), dst_bounds) = "ok"
               THEN /\ profile' = NormaliseProfile(profile)
                    /\ pc' = "resolve"
                    /\ UNCHANGED result
               ELSE /\ Raise("AssertionError")
                    /\ UNCHANGED profile
    /\ UNCHANGED <<dst_bounds, band, deflate_compression, save, unreadable,
                   passed, resolveVars, warpLocals, opened, disk, otherCalls>>

\* lines 53-63: resolution, dimensions and transform
WarpResolve ==
    /\ pc = "resolve"
    /\ LET r == Resolve(dst_bounds, res, dst_height, dst_width)
       IN  /\ xres' = r.xres
           /\ yres' = r.yres
           /\ dst_height' = r.height
           /\ dst_width' = r.width
           /\ IF r.err = ""
              THEN /\ dst_transform' =
                        Some(Transform(dst_bounds, Val(r.xres), Val(r.yres)))
                   /\ pc' = "options"
                   /\ UNCHANGED result
              ELSE /\ Raise(r.err)
                   /\ UNCHANGED dst_transform
    /\ UNCHANGED <<warpParams, res, vrt_options, outfiles, outfile, data, idx,
                   opened, disk, otherCalls>>

\* lines 65-82: the warp parameter set, and the empty list of outputs
WarpOptions ==
    /\ pc = "options"
    /\ vrt_options' = Some(VrtOptions(profile, dst_crs, Val(dst_transform),
                                      Val(dst_height), Val(dst_width),
                                      deflate_compression))
    /\ outfiles' = <<>>
    /\ idx' = 1
    /\ pc' = "loop"
    /\ UNCHANGED <<result, warpParams, resolveVars, xres, yres, dst_transform,
                   outfile, data, opened, disk, otherCalls>>

\* lines 83-85: the next p of tif_list is opened, and a warped view of it
WarpOpen ==
    /\ pc = "loop"
    /\ idx <= Len(tif_list[2])
    /\ LET p == tif_list[2][idx]
       IN  IF p \in unreadable
           THEN /\ Raise("RasterioIOError")
                /\ UNCHANGED opened
           ELSE /\ opened' = opened \o <<<<"r", p>>, <<"vrt", p>>>>
                /\ pc' = "read"
                /\ UNCHANGED result
    /\ UNCHANGED <<warpParams, resolveVars, warpLocals, disk, otherCalls>>

\* lines 86-94: the output path, and the pixels read through the view
WarpRead ==
    /\ pc = "read"
    /\ LET p == tif_list[2][idx]
       IN  /\ outfile' = Some(Outfile(p, Val(dst_height), Val(dst_width),
                                      Val(yres), Val(xres)))
           /\ data' = Some(Pixels(p, band))
    /\ IF save
       THEN /\ pc' = "write"
            /\ UNCHANGED idx
       ELSE /\ pc' = "loop"
            /\ idx' = idx + 1
    /\ UNCHANGED <<result, warpParams, resolveVars, xres, yres, dst_transform,
                   vrt_options, outfiles, opened, disk, otherCalls>>

\* lines 96-107: the output raster is opened for writing and written
WarpWrite ==
    /\ pc = "write"
    /\ opened' = Append(opened, <<"w", Val(outfile)>>)
    /\ disk' = Append(disk, <<Val(outfile),
                              [driver |-> "GTiff", data |-> Val(data),
                               count1 |-> ~IsNone(band)]>>)
    /\ outfiles' = Append(outfiles, Val(outfile))
    /\ idx' = idx + 1
    /\ pc' = "loop"
    /\ UNCHANGED <<result, warpParams, resolveVars, xres, yres, dst_transform,
                   vrt_options, outfile, data, otherCalls>>

\* a faulty variant of ReturnValue: a one-element list stays a list
ReturnValueAlwaysList(sv, outs, d) ==
    IF sv THEN <<"return", "list", outs>>
    ELSE IF IsNone(d) THEN <<"raise", "UnboundLocalError">>
    ELSE <<"return", "array", Val(d)>>

\* lines 108-113; data is unbound when the loop body never ran
ReturnValue(sv, outs, d) ==
    IF sv
    THEN IF Len(outs) = 1 THEN <<"return", "str", outs[1]>>
         ELSE <<"return", "list", outs>>
    ELSE IF IsNone(d) THEN <<"raise", "UnboundLocalError">>
    ELSE <<"return", "array", Val(d)>>

WarpReturn ==
    /\ pc = "loop"
    /\ idx > Len(tif_list[2])
    /\ result' = ReturnValue(save, outfiles, data)
    /\ pc' = IF ReturnValue(save, outfiles, data)[1] = "return"
             THEN "done" ELSE "failed"
    /\ UNCHANGED <<warpParams, resolveVars, warpLocals, opened, disk, otherCalls>>

NextWarp ==
    \/ WarpBegin
    \/ WarpResolve
    \/ WarpOptions
    \/ WarpOpen
    \/ WarpRead
    \/ WarpWrite
    \/ WarpReturn

(***************************************************************************)
(* The calls of warp_image the model runs.                                 *)
(***************************************************************************)
SeqsUpTo(S, n) == UNION {[1..k -> S] : k \in 0..n}
OptionalInts(n) == {None} \cup {Some(i) : i \in 0..n}

\* the call starts with its arguments bound to its parameters
Called ==
    /\ pc = "warp"
    /\ passed = [tif_list |-> tif_list, dst_crs |-> dst_crs, profile |-> profile,
                 dst_height |-> dst_height, dst_width |-> dst_width]
    /\ Fresh /\ NoValidateCall /\ NoGeoCall

\* resolution runs: every mix of res, dst_height and dst_width over a grid of
\* bounds, and the bounds (0, 0, 10, 10) with a resolution of 1 or with 5 x 5
\* pixels
InitResolve ==
    /\ dst_crs = 4326
    /\ \/ /\ dst_bounds \in (0..1) \X (0..1) \X (0..MaxCoord) \X (0..MaxCoord)
          /\ res \in {None} \cup {Some(Rat(k, 2)) : k \in (-1)..(2 * MaxRes)}
          /\ dst_height \in OptionalInts(MaxDim)
          /\ dst_width \in OptionalInts(MaxDim)
       \/ /\ dst_bounds = <<0, 0, 10, 10>>
          /\ \/ res = Some(RatOfInt(1)) /\ dst_height = None /\ dst_width = None
             \/ res = None /\ dst_height = Some(5) /\ dst_width = Some(5)
    /\ tif_list = <<"list", <<<<"x", ".tif">>>>>>
    /\ save \in BOOLEAN
    /\ band = None /\ profile = None /\ deflate_compression = TRUE
    /\ unreadable = {}
    /\ Called

\* a caller's profile: a raster profile with values of its own
UserProfile ==
    [k \in ComputedKeys \cup {"compress", "driver", "dtype"} |->
        CASE k = "resampling" -> "bilinear"
          [] k = "crs" -> FromUserInput(3857)
          [] k = "transform" ->
                Affine(RatOfInt(1), 0, 0, 0, RatOfInt(1), 0)
          [] k = "height" -> 512
          [] k = "width" -> 512
          [] k = "src_nodata" -> "0"
          [] k = "nodata" -> "0"
          [] k = "compress" -> "lzw"
          [] k = "driver" -> "GTiff"
          [] k = "dtype" -> "uint8"]

Profiles ==
    {None} \cup {Some([k \in S |-> UserProfile[k]]) : S \in SUBSET DOMAIN UserProfile}

\* parameter-set runs: every profile, compression on and off
InitOptions ==
    /\ dst_crs = 4326
    /\ dst_bounds = <<0, 0, 2, 2>>
    /\ res = Some(RatOfInt(1))
    /\ dst_height = None /\ dst_width = None
    /\ tif_list = <<"list", <<<<"x", ".tif">>>>>>
    /\ save \in BOOLEAN
    /\ band = None
    /\ profile \in Profiles
    /\ deflate_compression \in BOOLEAN
    /\ unreadable = {}
    /\ Called

SrcPaths ==
    { <<"a", "/", "x", ".tif">>, <<"b", "/", "x", ".tif">>, <<"x", ".tif">>,
      <<"y", ".tif">>, <<"x">> }

TifLists ==
    {<<"str", p>> : p \in SrcPaths}
    \cup {<<k, l>> : k \in {"list", "tuple"}, l \in SeqsUpTo(SrcPaths, MaxFiles)}

\* file runs: every tif_list, saving or not, good and bad bounds and CRS
InitFiles ==
    /\ dst_crs \in EpsgCodes \cup {0}
    /\ dst_bounds \in {<<0, 0, 2, 2>>, <<0, 0, 200, 200>>}
    /\ res \in {None, Some(RatOfInt(1))}
    /\ dst_height = None /\ dst_width = None
    /\ tif_list \in TifLists
    /\ save \in BOOLEAN
    /\ band \in {None, Some(1)}
    /\ profile = None /\ deflate_compression = TRUE
    /\ unreadable \in {{}, {<<"x", ".tif">>}}
    /\ Called

SpecResolve == InitResolve /\ [][NextWarp]_vars
SpecOptions == InitOptions /\ [][NextWarp]_vars
SpecFiles == InitFiles /\ [][NextWarp]_vars

(***************************************************************************)
(* get_geojson_bounds. A position is <<lon, lat>>; a geometry is a record  *)
(* with its GeoJSON members; aoi_geojson is <<"dict", g>> for a raw        *)
(* mapping and <<"GeoJSON", g>> for a parsed object.                       *)
(***************************************************************************)
RECURSIVE Flatten(_)
Flatten(ss) == IF ss = <<>> THEN <<>> ELSE Head(ss) \o Flatten(Tail(ss))

\* geojson.utils.coords(obj): every position of the structure, in order
RECURSIVE Coords(_)
Coords(g) ==
    CASE g.type = "Feature" -> Coords(g.geometry)
      [] g.type = "GeometryCollection" ->
            Flatten([i \in DOMAIN g.geometries |-> Coords(g.geometries[i])])
      [] g.type = "Point" -> <<g.coordinates>>
      [] g.type = "LineString" -> g.coordinates
      [] g.type = "MultiLineString" -> Flatten(g.coordinates)

\* line 116: geojson.base.GeoJSON(mapping) holds the mapping's members
ToGeoJSON(a) == IF a[1] = "dict" THEN <<"GeoJSON", a[2]>> ELSE a

Range(f) == {f[i] : i \in DOMAIN f}
Min(S) == CHOOSE x \in S : \A y \in S : x <= y
Max(S) == CHOOSE x \in S : \A y \in S : y <= x

\* a faulty variant of BoundsTuple: the order (lat_min, lon_min, lat_max, lon_max)
BoundsTupleMinFirst(lats, lons) ==
    <<Min(Range(lats)), Min(Range(lons)), Max(Range(lats)), Max(Range(lons))>>

\* lines 120-122
BoundsTuple(lats, lons) ==
    <<Max(Range(lats)), Min(Range(lons)), Min(Range(lats)), Max(Range(lons))>>

get_geojson_bounds(a) ==
    LET coords == Coords(ToGeoJSON(a)[2])
        lats == [i \in DOMAIN coords |-> coords[i][2]]
        lons == [i \in DOMAIN coords |-> coords[i][1]]
    IN  IF coords = <<>> THEN <<"raise", "ValueError">>
        ELSE <<"return", "tuple", BoundsTuple(lats, lons)>>

GeoCall ==
    /\ pc = "geo"
    /\ result' = get_geojson_bounds(aoi_geojson)
    /\ pc' = IF get_geojson_bounds(aoi_geojson)[1] = "return"
             THEN "done" ELSE "failed"
    /\ UNCHANGED <<validateFrame, warpParams, warpLocals, resolveVars, opened,
                   disk, aoi_geojson>>

Degrees == (0..MaxDeg) \cup {12, 34}
Positions == Degrees \X Degrees
ShortLines == SeqsUpTo(Positions, 1)

Geometries ==
    LET points == {[type |-> "Point", coordinates |-> q] : q \in Positions}
        lines == {[type |-> "LineString", coordinates |-> l] :
                     l \in SeqsUpTo(Positions, MaxPts)}
        multis == {[type |-> "MultiLineString", coordinates |-> <<l, m>>] :
                      l \in ShortLines, m \in ShortLines}
        features == {[type |-> "Feature", geometry |-> g] : g \in points}
        collections ==
            {[type |-> "GeometryCollection",
              geometries |-> <<g, [type |-> "LineString", coordinates |-> l]>>] :
                 g \in points, l \in ShortLines}
    IN  points \cup lines \cup multis \cup features \cup collections

InitGeo ==
    /\ pc = "geo"
    /\ aoi_geojson \in {"dict", "GeoJSON"} \X Geometries
    /\ Fresh /\ NoWarpCall /\ NoValidateCall

SpecGeo == InitGeo /\ [][GeoCall]_vars

(***************************************************************************)
(* The three functions together.                                           *)
(***************************************************************************)
Init == InitValidate \/ InitResolve \/ InitOptions \/ InitFiles \/ InitGeo
Next == ValidateCall \/ NextWarp \/ GeoCall
Spec == Init /\ [][Next]_vars

(***************************************************************************)
(* The claims.                                                             *)
(***************************************************************************)
Finished == pc \in {"done", "failed"}
Returned == pc = "done" /\ result[1] = "return"
Raised(e) == pc = "failed" /\ result = <<"raise", e>>

\* C1: for a projected CRS, validate_bounds_for_crs passes exactly when one of
\* the four bound values lies above 180 or below -180, whichever of left,
\* bottom, right, top it is and whatever its sign; otherwise it fails with an
\* assertion error.
C1_ProjectedPassesIffOneBeyond180 ==
    (Finished /\ crs.is_projected) =>
        IF \E i \in 1..4 : Abs(bounds[i]) > 180
        THEN Returned
        ELSE Raised("AssertionError")

\* C1's case: a projected call that passed on a negative bottom alone
C1_Witness ==
    /\ pc = "done" /\ crs.is_projected
    /\ bounds[2] < -180
    /\ \A i \in {1, 3, 4} : Abs(bounds[i]) <= 180

\* C2: for a geographic CRS, validate_bounds_for_crs passes exactly when top
\* and bottom lie in [-90, 90] and left and right lie in [-180, 180], each
\* value on its own (no ordering of left/right or bottom/top is required);
\* otherwise it fails with an assertion error.
C2_GeographicPassesIffEachInRange ==
    (Finished /\ ~crs.is_projected) =>
        LET left == bounds[1]  bottom == bounds[2]
            right == bounds[3]  top == bounds[4]
        IN  IF /\ -90 <= top /\ top <= 90 /\ -90 <= bottom /\ bottom <= 90
               /\ -180 <= left /\ left <= 180 /\ -180 <= right /\ right <= 180
            THEN Returned
            ELSE Raised("AssertionError")

\* C2's case: a geographic call that passed with left > right and bottom > top,
\* left beyond the latitude range
C2_Witness ==
    /\ pc = "done" /\ ~crs.is_projected
    /\ bounds[1] > bounds[3] /\ bounds[2] > bounds[4]
    /\ bounds[1] > 90

\* C3: in warp_image the validation of dst_bounds against dst_crs is over
\* before any raster is opened: whenever a source, a warped view or an output
\* has been opened, the bounds are ones the validation accepts; and a call the
\* validation aborted has opened no source, created no view and written no
\* output, whatever tif_list and save are.
C3_ValidatedBeforeAnyOpen ==
    /\ (opened # <<>> \/ disk # <<>> \/ outfiles # <<>>) =>
          IF dst_crs.is_projected
          THEN \E i \in 1..4 : Abs(dst_bounds[i]) > 180
          ELSE /\ \A i \in {2, 4} : Abs(dst_bounds[i]) <= 90
               /\ \A i \in {1, 3} : Abs(dst_bounds[i]) <= 180
    /\ Raised("AssertionError") =>
          /\ opened = <<>> /\ disk = <<>> /\ outfiles = <<>>
          /\ IsNone(vrt_options) /\ IsNone(data)

\* C3's case: the validation aborted a saving call that had two inputs to open
C3_Witness ==
    /\ Raised("AssertionError")
    /\ save /\ Len(tif_list[2]) = 2
    /\ opened = <<>>

\* k = round(num / den) as Python rounds: k is a nearest integer, and the even
\* one when num / den lies halfway between two
IsRoundOf(num, den, k) ==
    LET n == IF den < 0 THEN -num ELSE num
        d == Abs(den)
        twice == 2 * Abs(n - k * d)
    IN  /\ twice <= d
        /\ twice = d => k % 2 = 0

Resolved == ~IsNone(dst_transform)
Left == dst_bounds[1]
Bottom == dst_bounds[2]
Right == dst_bounds[3]
Top == dst_bounds[4]

\* both dimensions resolved to round(extent / res)
DimsDerivedFromRes ==
    /\ ~IsNone(dst_height) /\ ~IsNone(dst_width)
    /\ IsRoundOf((Top - Bottom) * Val(res)[2], Val(res)[1], Val(dst_height))
    /\ IsRoundOf((Right - Left) * Val(res)[2], Val(res)[1], Val(dst_width))

DimsAsPassed ==
    dst_height = passed.dst_height /\ dst_width = passed.dst_width

\* C4 as stated: with res supplied, dst_height and dst_width are used unchanged
\* when both are supplied, and both are recomputed from res when at least one
\* is missing.
C4_SuppliedDimsKept ==
    (Resolved /\ ~IsNone(res)) =>
        IF ~IsNone(passed.dst_height) /\ ~IsNone(passed.dst_width)
        THEN DimsAsPassed
        ELSE DimsDerivedFromRes

\* C4 amended: with a non-zero res supplied, dst_height and dst_width are used
\* unchanged when both are supplied and non-zero, and both are recomputed as
\* round((top-bottom)/res) and round((right-left)/res) when at least one is
\* missing or zero.
C4_NonZeroDimsKept ==
    (Resolved /\ ~IsNone(res) /\ Val(res)[1] # 0) =>
        IF /\ ~IsNone(passed.dst_height) /\ Val(passed.dst_height) # 0
           /\ ~IsNone(passed.dst_width) /\ Val(passed.dst_width) # 0
        THEN DimsAsPassed
        ELSE DimsDerivedFromRes

\* C4's case: res and a height of 2 were supplied without a width, and the
\* resolved height is another one
C4_Witness ==
    /\ Resolved /\ ~IsNone(res)
    /\ passed.dst_height = Some(2) /\ IsNone(passed.dst_width)
    /\ dst_height # Some(2)

\* xr * count = extent, for a rational xr
TimesIsExtent(xr, count, extent) == xr[1] * count = extent * xr[2]

\* C5: warp_image resolves xres, yres, height and width and the transform
\* (xres, 0, left, 0, -yres, top). With res supplied and neither dimension,
\* xres = yres = res and height, width are round((top-bottom)/res),
\* round((right-left)/res), Python's round. With no res, a missing dimension
\* fails the call before any file is opened, and otherwise the dimensions are
\* the supplied ones and xres = (right-left)/width, yres = (top-bottom)/height.
\* Bounds (0,0,10,10) give 10 x 10 pixels at res 1 and xres = yres = 2 at 5 x 5.
C5_ResolvedTupleAndTransform ==
    /\ Resolved =>
          LET xr == Val(xres)
              yr == Val(yres)
          IN  /\ Val(dst_transform) =
                    << xr, <<0, 1>>, <<Left, 1>>, <<0, 1>>, <<-yr[1], yr[2]>>,
                       <<Top, 1>> >>
              /\ xr[2] > 0 /\ yr[2] > 0
              /\ (/\ ~IsNone(res) /\ Val(res)[1] # 0
                  /\ IsNone(passed.dst_height) /\ IsNone(passed.dst_width)) =>
                    /\ xr = Val(res) /\ yr = Val(res)
                    /\ DimsDerivedFromRes
              /\ IsNone(res) =>
                    /\ ~IsNone(passed.dst_height) /\ ~IsNone(passed.dst_width)
                    /\ DimsAsPassed
                    /\ TimesIsExtent(xr, Val(dst_width), Right - Left)
                    /\ TimesIsExtent(yr, Val(dst_height), Top - Bottom)
              /\ (dst_bounds = <<0, 0, 10, 10>> /\ res = Some(<<1, 1>>)) =>
                    /\ dst_height = Some(10) /\ dst_width = Some(10)
                    /\ Val(dst_transform) =
                          << <<1, 1>>, <<0, 1>>, <<0, 1>>, <<0, 1>>, <<-1, 1>>,
                             <<10, 1>> >>
              /\ (dst_bounds = <<0, 0, 10, 10>> /\ IsNone(res)) =>
                    xr = <<2, 1>> /\ yr = <<2, 1>>
    /\ (IsNone(res) /\ (IsNone(passed.dst_height) \/ IsNone(passed.dst_width))) =>
          /\ pc \in {"warp", "resolve", "failed"}
          /\ opened = <<>> /\ disk = <<>>

\* C5's case: bounds (0,0,10,10) resolved at res 1 with no dimensions supplied
C5_Witness ==
    /\ Resolved
    /\ dst_bounds = <<0, 0, 10, 10>> /\ res = Some(<<1, 1>>)
    /\ IsNone(passed.dst_height) /\ IsNone(passed.dst_width)
    /\ dst_height = Some(10)

\* C6: whenever a transform is computed, xres * dst_width = right - left and
\* yres * dst_height = top - bottom hold exactly when the caller supplied both
\* dimensions (read here as: supplied and non-zero), whether or not res was
\* supplied too, and hold to within half a pixel when the dimensions were
\* derived from res.
C6_ResolutionTimesPixelsIsExtent ==
    Resolved =>
        LET xr == Val(xres)
            yr == Val(yres)
            w == Val(dst_width)
            h == Val(dst_height)
        IN  IF /\ ~IsNone(passed.dst_height) /\ Val(passed.dst_height) # 0
               /\ ~IsNone(passed.dst_width) /\ Val(passed.dst_width) # 0
            THEN /\ TimesIsExtent(xr, w, Right - Left)
                 /\ TimesIsExtent(yr, h, Top - Bottom)
            ELSE /\ 2 * Abs(xr[1] * w - (Right - Left) * xr[2]) <= Abs(xr[1])
                 /\ 2 * Abs(yr[1] * h - (Top - Bottom) * yr[2]) <= Abs(yr[1])

\* the profile the caller passed, None read as the empty mapping
PassedProfile ==
    IF IsNone(passed.profile) THEN [k \in {} |-> None] ELSE Val(passed.profile)

\* C7: the warp parameter set holds the computed resampling, crs, transform,
\* height, width, src_nodata and nodata whatever the caller's profile holds
\* under those keys; every other key of the profile is passed through
\* unchanged and no further key appears; compress is "deflate" when
\* deflate_compression is on and absent when it is off, even if the profile
\* has a compress entry.
C7_ComputedKeysWinOverProfile ==
    ~IsNone(vrt_options) =>
        LET o == Val(vrt_options)
            passthrough == DOMAIN PassedProfile \ (ComputedKeys \cup {"compress"})
        IN  /\ ComputedKeys \subseteq DOMAIN o
            /\ o["resampling"] = "nearest"
            /\ o["crs"] = dst_crs /\ dst_crs.epsg = passed.dst_crs
            /\ o["transform"] = Val(dst_transform)
            /\ o["height"] = Val(dst_height)
            /\ o["width"] = Val(dst_width)
            /\ o["src_nodata"] = "nan"
            /\ o["nodata"] = "nan"
            /\ \A k \in passthrough : k \in DOMAIN o /\ o[k] = PassedProfile[k]
            /\ DOMAIN o \subseteq DOMAIN PassedProfile \cup ComputedKeys \cup {"compress"}
            /\ IF deflate_compression
               THEN "compress" \in DOMAIN o /\ o["compress"] = "deflate"
               ELSE "compress" \notin DOMAIN o

\* C7's case: the profile sets height, crs, compress and driver, compression
\* is off, and the parameter set is built
C7_Witness ==
    /\ ~IsNone(vrt_options)
    /\ ~deflate_compression
    /\ {"height", "crs", "compress", "driver"} \subseteq DOMAIN PassedProfile
    /\ Val(vrt_options)["driver"] = "GTiff"

\* the input paths of the call, a single non-list path counting as one input
Inputs ==
    IF passed.tif_list[1] \in {"list", "tuple"} THEN passed.tif_list[2]
    ELSE <<passed.tif_list[2]>>

\* C8: a warp_image call that completes returns, with save on, the one output
\* path as a bare value when exactly one input was processed and otherwise
\* the sequence of the output paths, one per input in input order (the i-th
\* being the path the i-th input's pixels were written to); with save off, the
\* pixel array read from the last input only.
C8_ReturnValue ==
    pc = "done" =>
        LET n == Len(Inputs)
        IN  /\ tif_list = <<"list", Inputs>>
            /\ result[1] = "return"
            /\ IF save
               THEN /\ Len(disk) = n
                    /\ \A i \in 1..n : disk[i][2].data = <<"pixels", Inputs[i], band>>
                    /\ IF n = 1
                       THEN result[2] = "str" /\ result[3] = disk[1][1]
                       ELSE /\ result[2] = "list"
                            /\ Len(result[3]) = n
                            /\ \A i \in 1..n : result[3][i] = disk[i][1]
               ELSE /\ n >= 1
                    /\ result[2] = "array"
                    /\ result[3] = <<"pixels", Inputs[n], band>>
                    /\ disk = <<>>

\* C8's case: a call with save off and two different inputs has returned
C8_Witness ==
    /\ pc = "done" /\ ~save
    /\ Len(Inputs) = 2 /\ Inputs[1] # Inputs[2]
    /\ result[2] = "array"

\* C9: for an input with at least one coordinate, get_geojson_bounds returns
\* (lat_max, lon_min, lat_min, lon_max) in that order, lon being the first
\* and lat the second component of a coordinate and min/max ranging over all
\* coordinates of the structure; a Point [12, 34] gives (34, 12, 34, 12);
\* with no coordinate the call fails with the error of min/max on an empty
\* sequence.
C9_BoundsOrder ==
    (pc \in {"done", "failed"}) =>
        LET cs == Range(Coords(aoi_geojson[2]))
            lons == {c[1] : c \in cs}
            lats == {c[2] : c \in cs}
        IN  IF cs = {}
            THEN Raised("ValueError")
            ELSE /\ Returned
                 /\ result[2] = "tuple"
                 /\ Len(result[3]) = 4
                 /\ result[3][1] \in lats /\ \A y \in lats : y <= result[3][1]
                 /\ result[3][2] \in lons /\ \A x \in lons : result[3][2] <= x
                 /\ result[3][3] \in lats /\ \A y \in lats : result[3][3] <= y
                 /\ result[3][4] \in lons /\ \A x \in lons : x <= result[3][4]
                 /\ aoi_geojson[2] = [type |-> "Point", coordinates |-> <<12, 34>>]
                       => result[3] = <<34, 12, 34, 12>>

\* C9's case: the bounds of a raw mapping holding the Point [12, 34]
C9_Witness ==
    /\ pc = "done"
    /\ aoi_geojson = <<"dict", [type |-> "Point", coordinates |-> <<12, 34>>]>>
    /\ result = <<"return", "tuple", <<34, 12, 34, 12>>>>

\* C10: within one warp_image call with save on, no output path is opened
\* for writing a second time: the outputs written for two different input
\* paths are two different files.
C10_OutputsWrittenOnce ==
    \A i, j \in DOMAIN disk :
        (i < j /\ disk[i][2].data[2] # disk[j][2].data[2]) => disk[i][1] # disk[j][1]

====
